---- MODULE Spec2Model ----
(***************************************************************************)
(* Market-cap tracker: the Quote Proxy (GET /api/nvidia, two deployed      *)
(* variants) and the Comparison View (Home) that polls the proxy and the   *)
(* crypto aggregate API through useSWR and renders Error, Loading or Ready.*)
(*                                                                         *)
(* Money is counted in units of 1e8 USD so that 24.4e9 shares and 1e12     *)
(* fit the model checker's integers: 24.4e9 = 244 units, 1e12 = 10000      *)
(* units.  JavaScript numbers are exact rationals plus NaN and the two     *)
(* infinities; strings are sequences of one-character strings.             *)
(***************************************************************************)
EXTENDS Integers, Sequences, FiniteSets, TLC

\* ------------------------------------------------------------------------
\* JavaScript numbers
\* ------------------------------------------------------------------------

Abs(x) == IF x < 0 THEN -x ELSE x

RECURSIVE GCD(_, _)
GCD(a, b) == IF b = 0 THEN a ELSE GCD(b, a % b)

RECURSIVE Pow10(_)
Pow10(k) == IF k = 0 THEN 1 ELSE 10 * Pow10(k - 1)

\* n/d in lowest terms with a positive denominator
Rat(n, d) ==
  LET g == GCD(Abs(n), Abs(d))
      s == IF d < 0 THEN -1 ELSE 1
  IN  [k |-> "fin", n |-> s * (n \div g), d |-> s * (d \div g)]

NaN == [k |-> "NaN", n |-> 0, d |-> 1]
PosInf == [k |-> "Infinity", n |-> 0, d |-> 1]
NegInf == [k |-> "-Infinity", n |-> 0, d |-> 1]
Num(i) == Rat(i, 1)

IsFinite(x) == x.k = "fin"
Sign(x) == IF x.k = "Infinity" THEN 1
           ELSE IF x.k = "-Infinity" THEN -1
           ELSE IF x.n > 0 THEN 1 ELSE IF x.n < 0 THEN -1 ELSE 0
NegNum(x) == IF x.k = "NaN" THEN NaN
             ELSE IF x.k = "Infinity" THEN NegInf
             ELSE IF x.k = "-Infinity" THEN PosInf
             ELSE Rat(-x.n, x.d)

\* x - y
NumSub(x, y) ==
  IF x.k = "NaN" \/ y.k = "NaN" THEN NaN
  ELSE IF IsFinite(x) /\ IsFinite(y) THEN Rat(x.n * y.d - y.n * x.d, x.d * y.d)
  ELSE IF IsFinite(x) THEN NegNum(y)
  ELSE IF IsFinite(y) THEN x
  ELSE IF x.k = y.k THEN NaN ELSE x

\* x * y
NumMul(x, y) ==
  IF x.k = "NaN" \/ y.k = "NaN" THEN NaN
  ELSE IF IsFinite(x) /\ IsFinite(y) THEN Rat(x.n * y.n, x.d * y.d)
  ELSE IF Sign(x) * Sign(y) = 0 THEN NaN
  ELSE IF Sign(x) * Sign(y) > 0 THEN PosInf ELSE NegInf

\* x / y, with IEEE division by zero (the sign of a zero is not tracked: a
\* zero divisor is +0)
NumDiv(x, y) ==
  IF x.k = "NaN" \/ y.k = "NaN" THEN NaN
  ELSE IF IsFinite(x) /\ IsFinite(y) THEN
         IF y.n # 0 THEN Rat(x.n * y.d, x.d * y.n)
         ELSE IF x.n = 0 THEN NaN
         ELSE IF x.n > 0 THEN PosInf ELSE NegInf
  ELSE IF IsFinite(x) THEN Num(0)
  ELSE IF IsFinite(y) THEN (IF Sign(x) * (IF y.n < 0 THEN -1 ELSE 1) > 0
                            THEN PosInf ELSE NegInf)
  ELSE NaN

\* x >= y as JavaScript evaluates it (false when either side is NaN)
NumGeq(x, y) ==
  IF x.k = "NaN" \/ y.k = "NaN" THEN FALSE
  ELSE IF IsFinite(x) /\ IsFinite(y) THEN x.n * y.d >= y.n * x.d
  ELSE IF x.k = "Infinity" THEN TRUE
  ELSE IF y.k = "-Infinity" THEN TRUE
  ELSE FALSE

\* ------------------------------------------------------------------------
\* Strings and the conversions between strings and numbers
\* ------------------------------------------------------------------------

Digits == <<"0", "1", "2", "3", "4", "5", "6", "7", "8", "9">>
IsDigit(c) == \E i \in 1..10 : Digits[i] = c
DigitVal(c) == (CHOOSE i \in 1..10 : Digits[i] = c) - 1

\* the decimal digits of a natural number
RECURSIVE NatToStr(_)
NatToStr(m) == IF m < 10 THEN <<Digits[m + 1]>>
               ELSE NatToStr(m \div 10) \o <<Digits[(m % 10) + 1]>>

\* m written with at least w digits, zero padded on the left
RECURSIVE PadLeft(_, _)
PadLeft(s, w) == IF Len(s) >= w THEN s ELSE PadLeft(<<"0">> \o s, w)

\* index of the first position >= i of s that holds no digit
RECURSIVE DigitsEnd(_, _)
DigitsEnd(s, i) == IF i <= Len(s) /\ IsDigit(s[i]) THEN DigitsEnd(s, i + 1) ELSE i

\* value of the digit string s[i..j-1] (0 when empty)
RECURSIVE DigitsVal(_, _, _)
DigitsVal(s, i, j) == IF i >= j THEN 0
                      ELSE DigitsVal(s, i, j - 1) * 10 + DigitVal(s[j - 1])

RECURSIVE SkipSpaces(_, _)
SkipSpaces(s, i) == IF i <= Len(s) /\ s[i] = " " THEN SkipSpaces(s, i + 1) ELSE i

\* parseFloat of a string: leading blanks, an optional sign, the longest
\* prefix that is a decimal literal; NaN when there is none
ParseFloatStr(s) ==
  LET i0 == SkipSpaces(s, 1)
      neg == i0 <= Len(s) /\ s[i0] = "-"
      i1 == IF i0 <= Len(s) /\ s[i0] \in {"-", "+"} THEN i0 + 1 ELSE i0
      i2 == DigitsEnd(s, i1)
      dot == i2 <= Len(s) /\ s[i2] = "."
      i3 == IF dot THEN DigitsEnd(s, i2 + 1) ELSE i2
      nInt == i2 - i1
      nFrac == IF dot THEN i3 - (i2 + 1) ELSE 0
      mag == DigitsVal(s, i1, i2) * Pow10(nFrac)
             + (IF dot THEN DigitsVal(s, i2 + 1, i3) ELSE 0)
  IN  IF nInt = 0 /\ nFrac = 0 THEN NaN
      ELSE Rat(IF neg THEN -mag ELSE mag, Pow10(nFrac))

\* Number.prototype.toFixed(f): the decimal strings x can be formatted to.
\* The nearest multiple of 10^-f is taken; when x lies exactly half way
\* between two of them the binary representation of x decides, which the
\* rational value does not determine, so both neighbours are possible.
ToFixed(x, f) ==
  IF x.k # "fin" THEN
    {IF x.k = "NaN" THEN <<"N", "a", "N">>
     ELSE IF x.k = "Infinity" THEN <<"I", "n", "f", "i", "n", "i", "t", "y">>
     ELSE <<"-", "I", "n", "f", "i", "n", "i", "t", "y">>}
  ELSE
    LET mag == Abs(x.n) * Pow10(f)
        q == mag \div x.d
        r == mag % x.d
        near == IF 2 * r < x.d THEN {q}
                ELSE IF 2 * r > x.d THEN {q + 1}
                ELSE {q, q + 1}
        sgn == IF x.n < 0 THEN <<"-">> ELSE <<>>
        Fmt(m) == sgn \o NatToStr(m \div Pow10(f))
                  \o (IF f = 0 THEN <<>>
                      ELSE <<".">> \o PadLeft(NatToStr(m % Pow10(f)), f))
    IN  {Fmt(m) : m \in near}

\* String.prototype.replace(pat, "") for a one-character pattern: the first
\* occurrence is removed
RECURSIVE ReplaceFirst(_, _)
ReplaceFirst(s, c) ==
  IF s = <<>> THEN <<>>
  ELSE IF Head(s) = c THEN Tail(s)
  ELSE <<Head(s)>> \o ReplaceFirst(Tail(s), c)

\* ------------------------------------------------------------------------
\* JavaScript and JSON values
\* ------------------------------------------------------------------------

Undefined == [t |-> "undefined", s |-> <<>>, v |-> NaN]
Null == [t |-> "null", s |-> <<>>, v |-> NaN]
Str(s) == [t |-> "string", s |-> s, v |-> NaN]
NumV(x) == [t |-> "number", s |-> <<>>, v |-> x]

\* ToBoolean
Truthy(j) ==
  IF j.t = "string" THEN j.s # <<>>
  ELSE IF j.t = "number" THEN j.v.k # "NaN" /\ ~(j.v.k = "fin" /\ j.v.n = 0)
  ELSE j.t \notin {"undefined", "null"}

\* parseFloat(value): the argument is converted to a string first, so
\* undefined and null give NaN
ParseFloat(j) == IF j.t = "string" THEN ParseFloatStr(j.s)
                 ELSE IF j.t = "number" THEN j.v
                 ELSE NaN

\* JSON.stringify followed by JSON.parse: NaN and the infinities become
\* null, an undefined property is dropped
JsonValue(j) ==
  IF j.t = "number" /\ j.v.k # "fin" THEN Null ELSE j

\* ------------------------------------------------------------------------
\* The upstream quote API (Alpha Vantage GLOBAL_QUOTE), as the proxy sees it
\* ------------------------------------------------------------------------

S_Limit == <<"l", "i", "m", "i", "t">>
S_Price1 == <<"1", "7", "2", ".", "1", "3", "0", "0">>
S_Price2 == <<"1", "2", ".", "5", "0", "0", "0">>
S_Price3 == <<"1", "0", "0", ".", "0", "0", "0", "0">>
S_Junk == <<"n", "/", "a">>
S_Change == <<"-", "1", ".", "5", "0", "0", "0">>
S_Prev == <<"1", "7", "0", ".", "0", "0", "0", "0">>
S_Pct1 == <<"3", ".", "2", "5", "%">>
S_Pct2 == <<"-", "1", ".", "1", "0", "%">>

NoQuote == [t |-> "undefined", price |-> Undefined, prev |-> Undefined,
            change |-> Undefined, pct |-> Undefined]
NullQuote == [t |-> "null", price |-> Undefined, prev |-> Undefined,
              change |-> Undefined, pct |-> Undefined]
Quote(p, pc, c, cp) == [t |-> "object", price |-> p, prev |-> pc,
                        change |-> c, pct |-> cp]

\* `Global Quote` objects with every field a numeric string
ValidQuotes ==
  { Quote(Str(S_Price1), Str(S_Prev), Str(S_Change), Str(S_Pct1)),
    Quote(Str(S_Price2), Str(S_Prev), Str(S_Change), Str(S_Pct2)),
    Quote(Str(S_Price3), Str(S_Prev), Str(S_Change), Str(S_Pct1)) }

\* `Global Quote` objects with a field missing or not numeric; the empty
\* object is what the API sends for an unknown symbol
BrokenQuotes ==
  { Quote(Undefined, Undefined, Undefined, Undefined),
    Quote(Undefined, Str(S_Prev), Str(S_Change), Str(S_Pct1)),
    Quote(Str(S_Junk), Str(S_Prev), Str(S_Change), Str(S_Pct1)),
    Quote(Str(S_Price1), Undefined, Str(S_Change), Str(S_Pct1)),
    Quote(Str(S_Price1), Str(S_Prev), Undefined, Str(S_Pct1)),
    Quote(Str(S_Price1), Str(S_Prev), Str(S_Junk), Str(S_Pct1)),
    Quote(Str(S_Price1), Str(S_Prev), Str(S_Change), Undefined),
    Quote(Str(S_Price1), Str(S_Prev), Str(S_Change), Str(S_Junk)),
    Quote(Str(S_Price1), Str(S_Prev), Str(S_Change), NumV(Rat(13, 4))) }

Payload(info, q) == [t |-> "object", Information |-> info, quote |-> q]
NullPayload == [t |-> "null", Information |-> Undefined, quote |-> NoQuote]

\* payloads without `Information` carry any of the quotes; payloads with an
\* empty or a non-empty `Information` carry no quote or a valid one
UpstreamPayloads ==
  {Payload(Undefined, q) : q \in {NoQuote, NullQuote} \cup ValidQuotes \cup BrokenQuotes}
  \cup {Payload(i, q) : i \in {Str(<<>>), Str(S_Limit)},
                        q \in {NoQuote, Quote(Str(S_Price1), Str(S_Prev),
                                              Str(S_Change), Str(S_Pct1))}}
  \cup {NullPayload}

\* what `await fetch(...)` and `await response.json()` can deliver: the
\* fetch rejects, the body is no JSON, or the body decodes to a payload
Upstream(kind, data) == [kind |-> kind, data |-> data]
UpstreamOutcomes ==
  {Upstream("reject", NullPayload), Upstream("nonjson", NullPayload)}
  \cup {Upstream("json", d) : d \in UpstreamPayloads}

\* ------------------------------------------------------------------------
\* Quote Proxy: GET /api/nvidia
\* ------------------------------------------------------------------------

SHARES == 244        \* 24.4e9 shares, in units of 1e8
TRILLION == 10000    \* 1e12, in units of 1e8

Variants == {"5min", "1hour"}
Revalidate(variant) == IF variant = "5min" THEN 300 ELSE 3600
CacheControl(variant) ==
  IF variant = "5min" THEN [smaxage |-> 300, swr |-> 600]
  ELSE [smaxage |-> 3600, swr |-> 7200]
NoCacheControl == [smaxage |-> 0, swr |-> 0]

\* a JSON body of the proxy; a key the body does not have reads Undefined
Body(p, c, cp, mc, ts, err) ==
  [price |-> p, change |-> c, changePercent |-> cp, marketCap |-> mc,
   timestamp |-> ts, error |-> err]
BodyKeys(b) ==
  {k \in {"price", "change", "changePercent", "marketCap", "timestamp", "error"} :
     b[k].t # "undefined"}

\* 'Failed to fetch NVIDIA data' and an ISO-8601 time stamp, abbreviated
S_Failed == <<"F", "a", "i", "l", "e", "d">>
S_Iso == <<"2", "0", "2", "5", "Z">>

Return(status, body, cc) ==
  [c |-> "return", status |-> status, body |-> body, cc |-> cc, err |-> "none"]
Throw(err) ==
  [c |-> "throw", status |-> 0,
   body |-> Body(Undefined, Undefined, Undefined, Undefined, Undefined, Undefined),
   cc |-> NoCacheControl, err |-> err]

\* a wrong divisor: the market cap in billions
MarketCap_Billions(price) == NumDiv(NumMul(price, Num(SHARES)), Num(10))

\* const marketCap = (price * 24.4e9) / 1e12
MarketCap(price) == NumDiv(NumMul(price, Num(SHARES)), Num(TRILLION))

\* the Information check left out
InformationCheck_Never(data) == FALSE

\* if (data.Information)
InformationCheck(data) == Truthy(data.Information)

\* if (!quote), for quote = data['Global Quote']
QuoteMissing(quote) == quote.t \in {"undefined", "null"}

\* the change read where the change percent is meant
ChangePercent_WrongField(quote) == ParseFloat(quote.change)

\* parseFloat(quote['10. change percent'].replace('%', '')), for a quote
\* whose change percent is a string
ChangePercent(quote) == ParseFloatStr(ReplaceFirst(quote.pct.s, "%"))

\* the body of the try block, for one result of ToFixed: the completions of
\*   fetch; response.json(); the Information and Global Quote checks; the
\*   parseFloat calls; NextResponse.json({...}, {headers})
TryBlock(variant, up) ==
  IF up.kind = "reject" THEN {Throw("TypeError: fetch failed")}
  ELSE IF up.kind = "nonjson" THEN {Throw("SyntaxError: Unexpected token")}
  ELSE IF up.data.t = "null" THEN {Throw("TypeError: Cannot read properties of null")}
  ELSE IF InformationCheck(up.data) THEN {Throw("API rate limit or invalid key")}
  ELSE IF QuoteMissing(up.data.quote) THEN {Throw("Invalid API response")}
  ELSE
    LET quote == up.data.quote
        price == ParseFloat(quote.price)
        previousClose == IF variant = "5min" THEN ParseFloat(quote.prev) ELSE NaN
        change == ParseFloat(quote.change)
    IN  IF quote.pct.t \in {"undefined", "null"}
          THEN {Throw("TypeError: Cannot read properties of undefined")}
        ELSE IF quote.pct.t # "string"
          THEN {Throw("TypeError: replace is not a function")}
        ELSE
          LET changePercent == ChangePercent(quote)
              marketCap == MarketCap(price)
          IN  {Return(200,
                      Body(JsonValue(NumV(price)), JsonValue(NumV(change)),
                           JsonValue(NumV(changePercent)), Str(mc),
                           Str(S_Iso), Undefined),
                      CacheControl(variant)) : mc \in ToFixed(marketCap, 2)}

Response(status, body, cc) == [status |-> status, body |-> body, cc |-> cc]
ErrorBody == Body(Undefined, Undefined, Undefined, Undefined, Undefined, Str(S_Failed))

\* a catch that handles only the errors the handler throws itself and lets
\* a TypeError or SyntaxError of the runtime pass
CatchBlock_OwnErrorsOnly(completion) ==
  IF completion.c = "throw"
    THEN IF completion.err \in {"API rate limit or invalid key", "Invalid API response"}
           THEN [responses |-> <<Response(500, ErrorBody, NoCacheControl)>>,
                 logged |-> completion.err, escaped |-> "none"]
           ELSE [responses |-> <<>>, logged |-> "none", escaped |-> completion.err]
    ELSE [responses |-> <<Response(completion.status, completion.body, completion.cc)>>,
          logged |-> "none", escaped |-> "none"]

\* a catch that puts the reason of the failure into the body
CatchBlock_LeaksReason(completion) ==
  IF completion.c = "throw"
    THEN [responses |-> <<Response(500,
                                   Body(Undefined, Undefined, Undefined, Undefined,
                                        Undefined, Str(<<completion.err>>)),
                                   NoCacheControl)>>,
          logged |-> completion.err, escaped |-> "none"]
    ELSE [responses |-> <<Response(completion.status, completion.body, completion.cc)>>,
          logged |-> "none", escaped |-> "none"]

\* a catch that answers without { status: 500 }, so with the default 200
CatchBlock_NoStatus(completion) ==
  IF completion.c = "throw"
    THEN [responses |-> <<Response(200, ErrorBody, NoCacheControl)>>,
          logged |-> completion.err, escaped |-> "none"]
    ELSE [responses |-> <<Response(completion.status, completion.body, completion.cc)>>,
          logged |-> "none", escaped |-> "none"]

\* the catch block: log the error, answer 500 with the generic body; a
\* completed try block has answered already
CatchBlock(completion) ==
  IF completion.c = "throw"
    THEN [responses |-> <<Response(500, ErrorBody, NoCacheControl)>>,
          logged |-> completion.err, escaped |-> "none"]
    ELSE [responses |-> <<Response(completion.status, completion.body, completion.cc)>>,
          logged |-> "none", escaped |-> "none"]

\* export async function GET(): every way one invocation can end
\* a 5-minute variant that fails on a quote without previous close
GET_RequiresPreviousClose(variant, up) ==
  IF /\ variant = "5min"
     /\ up.kind = "json"
     /\ up.data.t = "object"
     /\ up.data.quote.t = "object"
     /\ up.data.quote.prev.t = "undefined"
    THEN {CatchBlock(Throw("TypeError: previous close"))}
    ELSE {CatchBlock(c) : c \in TryBlock(variant, up)}

GET(variant, up) == {CatchBlock(c) : c \in TryBlock(variant, up)}

\* next.config.ts: headers() attaches this Cache-Control to every path
SiteRule == [smaxage |-> 3600, swr |-> 7200]

\* the Cache-Control a response leaves the server with, when the handler
\* has set `cc` and the site-wide rule covers the route.  Which of the two
\* the framework sends when both are set is not decided by this repository:
\* either can be the one the caches see.
OutgoingCacheControl(cc) ==
  IF cc = NoCacheControl THEN {SiteRule} ELSE {cc, SiteRule}

\* ------------------------------------------------------------------------
\* The crypto aggregate API (CoinGecko /global), as the view sees it
\* ------------------------------------------------------------------------

MaxCryptoSteps == 2

\* total_market_cap.usd in steps of 1.75e12 USD, zero included
CryptoTotals == {k * 17500 : k \in 0..MaxCryptoSteps}

\* the decoded JSON of a crypto response; hasData tells whether the body has
\* the `data` object (an error body of the API has none)
CryptoBody(hasData, usd, btc, active) ==
  [defined |-> TRUE, hasData |-> hasData, usd |-> usd, btc |-> btc, active |-> active]
Aggregate(total) ==
  CryptoBody(TRUE, NumV(Num(total)), NumV(Rat(111, 2)), NumV(Num(17000)))
CryptoErrorBody == CryptoBody(FALSE, Undefined, Undefined, Undefined)
CryptoBodies == {Aggregate(total) : total \in CryptoTotals} \cup {CryptoErrorBody}

\* ------------------------------------------------------------------------
\* Comparison View: the two useSWR hooks and the render of Home
\* ------------------------------------------------------------------------

REFRESH_INTERVAL == 3600000

NoError == "undefined"
FetchErrors == {"TypeError: Failed to fetch", "SyntaxError: Unexpected token"}

\* data of a hook before its first successful fetch
UndefinedBody == Body(Undefined, Undefined, Undefined, Undefined, Undefined, Undefined)
NvidiaUndefined == [defined |-> FALSE, body |-> UndefinedBody]
NvidiaDefined(body) == [defined |-> TRUE, body |-> body]
CryptoUndefined ==
  [defined |-> FALSE, hasData |-> FALSE, usd |-> Undefined, btc |-> Undefined,
   active |-> Undefined]

\* const fetcher = (url) => fetch(url).then((res) => res.json()): the
\* promise rejects when fetch rejects or the body is no JSON, and resolves
\* with the decoded body otherwise, whatever the status of the response
fetcher(kind, status, json) ==
  IF kind = "reject" THEN [ok |-> FALSE, error |-> "TypeError: Failed to fetch", data |-> json]
  ELSE IF kind = "nonjson"
    THEN [ok |-> FALSE, error |-> "SyntaxError: Unexpected token", data |-> json]
  ELSE [ok |-> TRUE, error |-> NoError, data |-> json]

\* useSWR: a fulfilled fetch stores the data and clears the error, a
\* rejected one stores the error and keeps the data of the last success
useSWR(data, error, result) ==
  IF result.ok THEN [data |-> result.data, error |-> NoError]
  ELSE [data |-> data, error |-> result.error]

NotComputed == NaN

Screen(view, nLine, cLine, derived, cap, diff, pct, threw) ==
  [view |-> view, nvidiaLine |-> nLine, cryptoLine |-> cLine, derived |-> derived,
   cryptoMarketCap |-> cap, difference |-> diff, percentageDiff |-> pct,
   threw |-> threw]

\* the Error branch taken only when both sources failed
ErrorBranch_Both(nvidiaError, cryptoError) ==
  nvidiaError # NoError /\ cryptoError # NoError

\* if (nvidiaError || cryptoError)
ErrorBranch(nvidiaError, cryptoError) ==
  nvidiaError # NoError \/ cryptoError # NoError

\* the Loading branch taken only when both sources lack data
LoadingBranch_Both(nvidiaData, cryptoData) ==
  ~nvidiaData.defined /\ ~cryptoData.defined

\* if (!nvidiaData || !cryptoData); the bodies of the two endpoints are JSON
\* objects, so data is falsy exactly when it is undefined
LoadingBranch(nvidiaData, cryptoData) ==
  ~nvidiaData.defined \/ ~cryptoData.defined

\* the derivation hoisted above the Loading guard
DerivationRuns_Hoisted(view) == view # "Error"

\* the derivation statements stand after both early returns
DerivationRuns(view) == view = "Ready"

\* the difference taken the other way round
Derivation_Swapped(nvidiaData, cryptoData) ==
  LET cryptoMarketCap == NumDiv(cryptoData.usd.v, Num(TRILLION))
      difference == NumSub(cryptoMarketCap, ParseFloat(nvidiaData.body.marketCap))
      percentageDiff == NumMul(NumDiv(difference, cryptoMarketCap), Num(100))
  IN  [cryptoMarketCap |-> cryptoMarketCap, difference |-> difference,
       percentageDiff |-> percentageDiff]

\* a division guarded against a crypto total of 0
Derivation_Guarded(nvidiaData, cryptoData) ==
  LET cryptoMarketCap == NumDiv(cryptoData.usd.v, Num(TRILLION))
      difference == NumSub(ParseFloat(nvidiaData.body.marketCap), cryptoMarketCap)
      percentageDiff == IF cryptoMarketCap = Num(0) THEN Num(0)
                        ELSE NumMul(NumDiv(difference, cryptoMarketCap), Num(100))
  IN  [cryptoMarketCap |-> cryptoMarketCap, difference |-> difference,
       percentageDiff |-> percentageDiff]

\* const cryptoMarketCap = cryptoData.data.total_market_cap.usd / 1e12;
\* const difference = parseFloat(nvidiaData.marketCap) - cryptoMarketCap;
\* const percentageDiff = (difference / cryptoMarketCap) * 100;
Derivation(nvidiaData, cryptoData) ==
  LET cryptoMarketCap == NumDiv(cryptoData.usd.v, Num(TRILLION))
      difference == NumSub(ParseFloat(nvidiaData.body.marketCap), cryptoMarketCap)
      percentageDiff == NumMul(NumDiv(difference, cryptoMarketCap), Num(100))
  IN  [cryptoMarketCap |-> cryptoMarketCap, difference |-> difference,
       percentageDiff |-> percentageDiff]

\* the Ready markup raises a TypeError where it calls a method of a value
\* that is undefined or null: nvidiaData.price.toFixed(2),
\* cryptoData.data.active_cryptocurrencies.toLocaleString(),
\* btcDominance.toFixed(1)
MarkupThrows(nvidiaData, cryptoData) ==
  \/ nvidiaData.body.price.t # "number"
  \/ cryptoData.active.t # "number"
  \/ cryptoData.btc.t # "number"

\* a detail line that is always part of the Error markup
ErrorLine_Always(error) == TRUE

\* {nvidiaError && <p>NVIDIA API Error</p>}, {cryptoError && <p>Crypto API
\* Error</p>}: the line is rendered when the hook's error is truthy
ErrorLine(error) == error # NoError

\* the body of a data_load effect: if (data) trackDataLoad(source, true);
\* if (error) trackDataLoad(source, false).  The success flags of the
\* events it dispatches, in order.
DataLoadEffect(data, error) ==
  (IF data.defined THEN <<TRUE>> ELSE <<>>)
    \o (IF error # NoError THEN <<FALSE>> ELSE <<>>)

\* useEffect(..., [data, error]): the effect runs after a render in which
\* one of its dependencies has changed
DataLoadEvents(data, error, newData, newError) ==
  IF <<data, error>> # <<newData, newError>>
    THEN DataLoadEffect(newData, newError)
    ELSE <<>>

\* which of the three returns of Home is taken
Branch(nvidiaData, nvidiaError, cryptoData, cryptoError) ==
  IF ErrorBranch(nvidiaError, cryptoError) THEN "Error"
  ELSE IF LoadingBranch(nvidiaData, cryptoData) THEN "Loading"
  ELSE "Ready"

\* the render of Home.  `derived` tells whether the derivation statements
\* were executed, `threw` whether evaluating them or the Ready markup raised
\* a TypeError (cryptoData.data is undefined for a body without `data`).
Home(nvidiaData, nvidiaError, cryptoData, cryptoError) ==
  LET view == Branch(nvidiaData, nvidiaError, cryptoData, cryptoError)
  IN  IF view = "Error" THEN
        Screen(view, ErrorLine(nvidiaError), ErrorLine(cryptoError),
               DerivationRuns(view), NotComputed, NotComputed, NotComputed, FALSE)
      ELSE IF ~DerivationRuns(view) THEN
        Screen(view, FALSE, FALSE, FALSE, NotComputed, NotComputed, NotComputed,
               FALSE)
      ELSE IF ~cryptoData.hasData THEN
        Screen(view, FALSE, FALSE, TRUE, NotComputed, NotComputed, NotComputed,
               view = "Ready")
      ELSE
        LET d == Derivation(nvidiaData, cryptoData)
        IN  Screen(view, FALSE, FALSE, TRUE, d.cryptoMarketCap, d.difference,
                   d.percentageDiff,
                   view = "Ready" /\ MarkupThrows(nvidiaData, cryptoData))

\* ------------------------------------------------------------------------
\* State
\* ------------------------------------------------------------------------

VARIABLES
  variant,      \* which variant of the proxy route is deployed
  nvidiaReq,    \* the view's request to /api/nvidia: "idle", "sent", "answered"
  proxyCall,    \* the GET invocation that answered it: upstream outcome, result
  nvidiaData,   \* data of useSWR('/api/nvidia')
  nvidiaError,  \* error of useSWR('/api/nvidia')
  cryptoReq,    \* the view's request to the crypto API: "idle", "sent"
  cryptoData,   \* data of useSWR('https://api.coingecko.com/api/v3/global')
  cryptoError,  \* error of that hook
  screen,       \* what the last render of Home produced
  everReady,    \* history: some render so far took the Ready branch
  nvidiaCause,  \* what issued the NVIDIA request that is on its way to the
                \* proxy: "mount", "poll", "retry", "focus"; "none" otherwise
  cryptoCause,  \* what issued the crypto request under way, "none" when idle
  showPrivacyPopup,     \* useState(false): the privacy notice is up
  hasSeenPrivacyPopup,  \* localStorage has the item 'hasSeenPrivacyPopup'
  clock,        \* seconds since the page was mounted
  fetchCache,   \* the framework's cache of the upstream fetch (revalidate)
  edgeCache,    \* a shared cache in front of the route (s-maxage)
  shown,        \* the quote the view holds as nvidiaData: when it was produced
  lastPoll,     \* when the view issued its last request to the route
  prevView,     \* history: the return Home took in the render before the last
  mounted,      \* Home is mounted
  copied,       \* useState(false) copied / copiedSolana, by address
  copyTimers,   \* pending setTimeout(() => setCopied(false), 2000): ms left
  sinceClick,   \* ms since the last click on the address, -1 before the first
  figIn,        \* a marketCap string and a crypto total put to the markup
  figOut        \* the three figures the markup has shown for them

pageVars == <<showPrivacyPopup, hasSeenPrivacyPopup>>

cacheVars == <<clock, fetchCache, edgeCache, shown, lastPoll>>

copyVars == <<mounted, copied, copyTimers, sinceClick>>

figureVars == <<figIn, figOut>>

vars == <<variant, nvidiaReq, proxyCall, nvidiaData, nvidiaError, cryptoReq,
          cryptoData, cryptoError, screen, everReady, nvidiaCause, cryptoCause,
          pageVars, cacheVars, prevView, copyVars, figureVars>>

\* an empty cache, and an entry holding a quote produced at time `at`
NoEntry == [has |-> FALSE, at |-> 0, storedAt |-> 0, cc |-> NoCacheControl]
Entry(at, storedAt, cc) == [has |-> TRUE, at |-> at, storedAt |-> storedAt, cc |-> cc]

\* the two donation addresses
Addresses == {"evm", "solana"}

NoFigures == [shown |-> FALSE, nvidia |-> <<>>, crypto |-> <<>>,
              difference |-> <<>>, plus |-> FALSE]
NoInput == [cap |-> <<>>, total |-> 0]

NoCall ==
  [up |-> Upstream("none", NullPayload),
   result |-> [responses |-> <<>>, logged |-> "none", escaped |-> "none"],
   sent |-> NoCacheControl]

\* the page has mounted on a first visit: both hooks have issued their
\* first request and hold neither data nor error; the mount effect has found
\* no item in localStorage and has put the privacy notice up
InitPage ==
  /\ variant \in Variants
  /\ nvidiaReq = "sent"
  /\ proxyCall = NoCall
  /\ nvidiaData = NvidiaUndefined
  /\ nvidiaError = NoError
  /\ cryptoReq = "sent"
  /\ cryptoData = CryptoUndefined
  /\ cryptoError = NoError
  /\ screen = Home(NvidiaUndefined, NoError, CryptoUndefined, NoError)
  /\ everReady = FALSE
  /\ nvidiaCause = "mount"
  /\ cryptoCause = "mount"
  /\ showPrivacyPopup = TRUE
  /\ hasSeenPrivacyPopup = FALSE
  /\ clock = 0
  /\ fetchCache = NoEntry
  /\ edgeCache = NoEntry
  /\ shown = NoEntry
  /\ lastPoll = 0
  /\ prevView = "none"
  /\ mounted = TRUE
  /\ copied = [a \in Addresses |-> FALSE]
  /\ copyTimers = [a \in Addresses |-> {}]
  /\ sinceClick = [a \in Addresses |-> -1]
  /\ figOut = NoFigures

Init == InitPage /\ figIn = NoInput

\* a view that keeps the Error markup once it has shown it
Rerender_LatchesError(nd, ne, cd, ce) ==
  LET h == IF screen.view = "Error" THEN screen ELSE Home(nd, ne, cd, ce)
  IN  /\ screen' = h
      /\ everReady' = (everReady \/ h.view = "Ready")

\* React renders Home again after a hook's state changed
Rerender(nd, ne, cd, ce) ==
  /\ screen' = Home(nd, ne, cd, ce)
  /\ everReady' = (everReady \/ Home(nd, ne, cd, ce).view = "Ready")

\* ------------------------------------------------------------------------
\* Actions
\* ------------------------------------------------------------------------

\* a poll that drops the hook's data while the new request is under way
NvidiaPoll_ClearsData ==
  /\ nvidiaReq = "idle"
  /\ nvidiaReq' = "sent"
  /\ nvidiaData' = NvidiaUndefined
  /\ screen' = Home(NvidiaUndefined, nvidiaError, cryptoData, cryptoError)
  /\ UNCHANGED <<variant, proxyCall, nvidiaError, cryptoReq, cryptoData,
                 cryptoError, everReady, cryptoCause,
                 pageVars, cacheVars>>
  /\ nvidiaCause' = "poll"

\* refreshInterval timer of the NVIDIA hook fires: a new request is issued;
\* the hook's data and error, and so the screen, stay as they are
NvidiaPoll ==
  /\ nvidiaReq = "idle"
  /\ nvidiaReq' = "sent"
  /\ UNCHANGED <<variant, proxyCall, nvidiaData, nvidiaError, cryptoReq,
                 cryptoData, cryptoError, screen, everReady, cryptoCause,
                 pageVars, cacheVars>>
  /\ nvidiaCause' = "poll"

\* the route handler runs for the request and answers it; the response
\* leaves the server with the Cache-Control the header rules give it
ProxyGETFrom(outcomes) ==
  /\ nvidiaReq = "sent"
  /\ \E up \in outcomes : \E r \in GET(variant, up) :
       \E cc \in (IF Len(r.responses) = 1
                   THEN OutgoingCacheControl(r.responses[1].cc)
                   ELSE {NoCacheControl}) :
         proxyCall' = [up |-> up, result |-> r, sent |-> cc]
  /\ nvidiaReq' = "answered"
  /\ nvidiaCause' = "none"
  /\ UNCHANGED <<variant, nvidiaData, nvidiaError, cryptoReq, cryptoData,
                 cryptoError, screen, everReady, cryptoCause, pageVars, cacheVars>>

ProxyGET == ProxyGETFrom(UpstreamOutcomes)

\* the proxy's response reaches the view: fetcher decodes the body, the hook
\* takes the result, Home renders
NvidiaResolve ==
  /\ nvidiaReq = "answered"
  /\ Len(proxyCall.result.responses) = 1
  /\ LET res == proxyCall.result.responses[1]
         swr == useSWR(nvidiaData, nvidiaError,
                       fetcher("json", res.status, NvidiaDefined(res.body)))
     IN  /\ nvidiaData' = swr.data
         /\ nvidiaError' = swr.error
         /\ Rerender(swr.data, swr.error, cryptoData, cryptoError)
  /\ nvidiaReq' = "idle"
  /\ proxyCall' = NoCall
  /\ UNCHANGED <<variant, cryptoReq, cryptoData, cryptoError, cryptoCause,
                 pageVars, cacheVars>>
  /\ nvidiaCause' = "none"

\* the request to the proxy fails on the way (no connection, or a gateway
\* answers with a page that is no JSON)
NvidiaFetchFails ==
  /\ nvidiaReq \in {"sent", "answered"}
  /\ \E kind \in {"reject", "nonjson"} :
       LET swr == useSWR(nvidiaData, nvidiaError, fetcher(kind, 0, nvidiaData))
       IN  /\ nvidiaData' = swr.data
           /\ nvidiaError' = swr.error
           /\ Rerender(swr.data, swr.error, cryptoData, cryptoError)
  /\ nvidiaReq' = "idle"
  /\ proxyCall' = NoCall
  /\ UNCHANGED <<variant, cryptoReq, cryptoData, cryptoError, cryptoCause,
                 pageVars, cacheVars>>
  /\ nvidiaCause' = "none"

\* refreshInterval timer of the crypto hook fires
CryptoPoll ==
  /\ cryptoReq = "idle"
  /\ cryptoReq' = "sent"
  /\ UNCHANGED <<variant, nvidiaReq, proxyCall, nvidiaData, nvidiaError,
                 cryptoData, cryptoError, screen, everReady, nvidiaCause,
                 pageVars, cacheVars>>
  /\ cryptoCause' = "poll"

\* a crypto result that also resets the error of the NVIDIA hook
CryptoResolve_ClearsNvidiaError ==
  /\ cryptoReq = "sent"
  /\ \E body \in CryptoBodies :
       LET swr == useSWR(cryptoData, cryptoError, fetcher("json", 200, body))
       IN  /\ cryptoData' = swr.data
           /\ cryptoError' = swr.error
           /\ nvidiaError' = NoError
           /\ Rerender(nvidiaData, NoError, swr.data, swr.error)
  /\ cryptoReq' = "idle"
  /\ cryptoCause' = "none"
  /\ UNCHANGED <<variant, nvidiaReq, proxyCall, nvidiaData, nvidiaCause,
                 pageVars, cacheVars>>

\* the crypto API answers with a JSON body (of any status)
CryptoResolve ==
  /\ cryptoReq = "sent"
  /\ \E body \in CryptoBodies :
       LET swr == useSWR(cryptoData, cryptoError, fetcher("json", 200, body))
       IN  /\ cryptoData' = swr.data
           /\ cryptoError' = swr.error
           /\ Rerender(nvidiaData, nvidiaError, swr.data, swr.error)
  /\ cryptoReq' = "idle"
  /\ UNCHANGED <<variant, nvidiaReq, proxyCall, nvidiaData, nvidiaError, nvidiaCause,
                 pageVars, cacheVars>>
  /\ cryptoCause' = "none"

\* the request to the crypto API fails
CryptoFetchFails ==
  /\ cryptoReq = "sent"
  /\ \E kind \in {"reject", "nonjson"} :
       LET swr == useSWR(cryptoData, cryptoError, fetcher(kind, 0, cryptoData))
       IN  /\ cryptoData' = swr.data
           /\ cryptoError' = swr.error
           /\ Rerender(nvidiaData, nvidiaError, swr.data, swr.error)
  /\ cryptoReq' = "idle"
  /\ UNCHANGED <<variant, nvidiaReq, proxyCall, nvidiaData, nvidiaError, nvidiaCause,
                 pageVars, cacheVars>>
  /\ cryptoCause' = "none"

\* a retry of the NVIDIA hook that makes the crypto hook fetch as well
NvidiaErrorRetry_Both ==
  /\ nvidiaReq = "idle"
  /\ nvidiaError # NoError
  /\ nvidiaReq' = "sent"
  /\ nvidiaCause' = "retry"
  /\ cryptoReq' = "sent"
  /\ cryptoCause' = (IF cryptoReq = "idle" THEN "retry" ELSE cryptoCause)
  /\ UNCHANGED <<variant, proxyCall, nvidiaData, nvidiaError, cryptoData,
                 cryptoError, screen, everReady, pageVars, cacheVars>>

\* useSWR is called with { refreshInterval: 3600000 } and nothing else, so
\* the library's defaults are in force.  shouldRetryOnError: after a failed
\* fetch the hook's retry timer (errorRetryInterval, doubling) issues the
\* request again.
NvidiaErrorRetry ==
  /\ nvidiaReq = "idle"
  /\ nvidiaError # NoError
  /\ nvidiaReq' = "sent"
  /\ nvidiaCause' = "retry"
  /\ UNCHANGED <<variant, proxyCall, nvidiaData, nvidiaError, cryptoReq,
                 cryptoData, cryptoError, screen, everReady, cryptoCause,
                 pageVars, cacheVars>>

CryptoErrorRetry ==
  /\ cryptoReq = "idle"
  /\ cryptoError # NoError
  /\ cryptoReq' = "sent"
  /\ cryptoCause' = "retry"
  /\ UNCHANGED <<variant, nvidiaReq, proxyCall, nvidiaData, nvidiaError,
                 cryptoData, cryptoError, screen, everReady, nvidiaCause,
                 pageVars, cacheVars>>

\* revalidateOnFocus, revalidateOnReconnect: when the window gets the focus
\* or the browser comes back online, every hook without a request under way
\* issues one
Focus ==
  /\ nvidiaReq = "idle" \/ cryptoReq = "idle"
  /\ IF nvidiaReq = "idle"
       THEN nvidiaReq' = "sent" /\ nvidiaCause' = "focus"
       ELSE UNCHANGED <<nvidiaReq, nvidiaCause>>
  /\ IF cryptoReq = "idle"
       THEN cryptoReq' = "sent" /\ cryptoCause' = "focus"
       ELSE UNCHANGED <<cryptoReq, cryptoCause>>
  /\ UNCHANGED <<variant, proxyCall, nvidiaData, nvidiaError, cryptoData,
                 cryptoError, screen, everReady, pageVars, cacheVars>>

\* what a specification does not follow stays as it is
Aside == UNCHANGED <<prevView, copyVars, figureVars>>

Next ==
  \/ NvidiaPoll /\ Aside
  \/ ProxyGET /\ Aside
  \/ NvidiaResolve /\ Aside
  \/ NvidiaFetchFails /\ Aside
  \/ NvidiaErrorRetry /\ Aside
  \/ CryptoPoll /\ Aside
  \/ CryptoResolve /\ Aside
  \/ CryptoFetchFails /\ Aside
  \/ CryptoErrorRetry /\ Aside
  \/ Focus /\ Aside

Spec == Init /\ [][Next]_vars

\* ------------------------------------------------------------------------
\* The privacy notice, over page loads with the upstream API in order
\* ------------------------------------------------------------------------

\* the notice is part of the Ready markup only
PopupRendered ==
  showPrivacyPopup /\ screen.view = "Ready" /\ ~screen.threw

\* the "Got it" / "I Understand" button
handlePrivacyAccept ==
  /\ PopupRendered
  /\ hasSeenPrivacyPopup' = TRUE
  /\ showPrivacyPopup' = FALSE
  /\ UNCHANGED <<variant, nvidiaReq, proxyCall, nvidiaData, nvidiaError,
                 cryptoReq, cryptoData, cryptoError, screen, everReady,
                 nvidiaCause, cryptoCause, cacheVars>>

\* the x / "Close" button: setShowPrivacyPopup(false) and an analytics event
PrivacyDismiss ==
  /\ PopupRendered
  /\ showPrivacyPopup' = FALSE
  /\ UNCHANGED <<variant, nvidiaReq, proxyCall, nvidiaData, nvidiaError,
                 cryptoReq, cryptoData, cryptoError, screen, everReady,
                 nvidiaCause, cryptoCause, hasSeenPrivacyPopup, cacheVars>>

\* the page is loaded again: the component state starts afresh, localStorage
\* is what it was, and the mount effect puts the notice up unless the item
\* is there
Reload ==
  /\ nvidiaReq' = "sent"
  /\ proxyCall' = NoCall
  /\ nvidiaData' = NvidiaUndefined
  /\ nvidiaError' = NoError
  /\ cryptoReq' = "sent"
  /\ cryptoData' = CryptoUndefined
  /\ cryptoError' = NoError
  /\ screen' = Home(NvidiaUndefined, NoError, CryptoUndefined, NoError)
  /\ everReady' = FALSE
  /\ nvidiaCause' = "mount"
  /\ cryptoCause' = "mount"
  /\ showPrivacyPopup' = ~hasSeenPrivacyPopup
  /\ UNCHANGED <<variant, hasSeenPrivacyPopup, cacheVars>>

\* upstream answers with a complete quote
QuoteOutcomes == {Upstream("json", Payload(Undefined, q)) : q \in ValidQuotes}

ProxyGETQuote == ProxyGETFrom(QuoteOutcomes)

NextPrivacy ==
  \/ ProxyGETQuote /\ Aside
  \/ NvidiaResolve /\ Aside
  \/ CryptoResolve /\ Aside
  \/ handlePrivacyAccept /\ Aside
  \/ PrivacyDismiss /\ Aside
  \/ Reload /\ Aside

SpecPrivacy == Init /\ [][NextPrivacy]_vars

\* ------------------------------------------------------------------------
\* The age of the quote: the requests to the route followed through the
\* caches, with the upstream API in order and the payloads left aside
\* ------------------------------------------------------------------------

viewVars == <<variant, nvidiaReq, proxyCall, nvidiaData, nvidiaError, cryptoReq,
              cryptoData, cryptoError, screen, everReady, nvidiaCause,
              cryptoCause>>

\* the time the model follows the caches for, in seconds
Horizon == 14400

\* refreshInterval in seconds
PollSeconds == REFRESH_INTERVAL \div 1000

\* time passes in steps of the upstream cache interval
Granule(v) == Revalidate(v)

\* fetch(url, { next: { revalidate } }) at time `now`: an entry younger than
\* revalidate is returned as it is; an older one is either returned stale
\* while the framework fetches anew in the background, or replaced before
\* the call returns; without an entry the upstream API is asked
CachedFetch(v, fc, now) ==
  IF fc.has /\ now - fc.storedAt < Revalidate(v)
    THEN {[at |-> fc.at, fetch |-> fc]}
  ELSE IF fc.has
    THEN {[at |-> fc.at, fetch |-> Entry(now, now, NoCacheControl)],
          [at |-> now, fetch |-> Entry(now, now, NoCacheControl)]}
  ELSE {[at |-> now, fetch |-> Entry(now, now, NoCacheControl)]}

\* a request to the route at time `now` through a shared cache that obeys
\* Cache-Control: a fresh entry (younger than s-maxage) is served; a stale
\* one within stale-while-revalidate is served while the route is asked
\* for a new one; otherwise the route is asked and its response stored
ThroughEdge(v, ec, fc, now) ==
  LET stored == {[at |-> h.at, edge |-> Entry(h.at, now, cc), fetch |-> h.fetch] :
                   h \in CachedFetch(v, fc, now),
                   cc \in OutgoingCacheControl(CacheControl(v))}
  IN  IF ec.has /\ now - ec.storedAt < ec.cc.smaxage
        THEN {[at |-> ec.at, edge |-> ec, fetch |-> fc]}
      ELSE IF ec.has /\ now - ec.storedAt < ec.cc.smaxage + ec.cc.swr
        THEN {[at |-> ec.at, edge |-> s.edge, fetch |-> s.fetch] : s \in stored}
      ELSE stored

\* the view's request: the first one on mount, the next ones when the
\* refreshInterval timer fires; the hook takes the quote that comes back
QuoteRequest ==
  /\ ~shown.has \/ clock - lastPoll = PollSeconds
  /\ \E r \in ThroughEdge(variant, edgeCache, fetchCache, clock) :
       /\ shown' = Entry(r.at, clock, NoCacheControl)
       /\ edgeCache' = r.edge
       /\ fetchCache' = r.fetch
  /\ lastPoll' = clock
  /\ UNCHANGED <<viewVars, pageVars, clock>>

\* another visitor's request to the route
OtherVisitor ==
  /\ \E r \in ThroughEdge(variant, edgeCache, fetchCache, clock) :
       /\ edgeCache' = r.edge
       /\ fetchCache' = r.fetch
  /\ UNCHANGED <<viewVars, pageVars, clock, shown, lastPoll>>

\* time passes, up to the moment the view's timer fires
Tick ==
  /\ shown.has
  /\ clock - lastPoll < PollSeconds
  /\ clock + Granule(variant) <= Horizon
  /\ clock' = clock + Granule(variant)
  /\ UNCHANGED <<viewVars, pageVars, fetchCache, edgeCache, shown, lastPoll>>

NextAge ==
  \/ QuoteRequest /\ Aside
  \/ OtherVisitor /\ Aside
  \/ Tick /\ Aside

SpecAge == Init /\ [][NextAge]_vars

\* ------------------------------------------------------------------------
\* Failure and recovery: the view with a network that fails and an upstream
\* API that answers with a complete quote, and the history of its renders
\* ------------------------------------------------------------------------

\* a step that delivers a result or a failure makes Home render
Renders ==
  \/ nvidiaReq # "idle" /\ nvidiaReq' = "idle"
  \/ cryptoReq # "idle" /\ cryptoReq' = "idle"

\* the history of the renders
History ==
  /\ prevView' = (IF Renders THEN screen.view ELSE prevView)
  /\ UNCHANGED <<copyVars, figureVars>>

NextRecover ==
  \/ NvidiaPoll /\ History
  \/ ProxyGETQuote /\ History
  \/ NvidiaResolve /\ History
  \/ NvidiaFetchFails /\ History
  \/ NvidiaErrorRetry /\ History
  \/ CryptoPoll /\ History
  \/ CryptoResolve /\ History
  \/ CryptoFetchFails /\ History
  \/ CryptoErrorRetry /\ History
  \/ Focus /\ History

SpecRecover == Init /\ [][NextRecover]_vars

\* ------------------------------------------------------------------------
\* The 'Copied!' indicators: clicks on the donation addresses and the
\* timers they start, with the upstream API in order
\* ------------------------------------------------------------------------

\* the delay of the reset timer, in ms
COPIED_MS == 2000

\* time passes in steps of this many ms
CopyGranule == 1000

\* what the copy handlers and timers leave alone
CopyFrame == UNCHANGED <<viewVars, pageVars, cacheVars, prevView, figureVars>>

\* onClick of an address: setCopied(true); setTimeout(() =>
\* setCopied(false), 2000).  The addresses are part of the Ready markup.
ClickCopy ==
  /\ mounted
  /\ screen.view = "Ready" /\ ~screen.threw
  /\ \E a \in Addresses :
       /\ copied' = [copied EXCEPT ![a] = TRUE]
       /\ copyTimers' = [copyTimers EXCEPT ![a] = @ \cup {COPIED_MS}]
       /\ sinceClick' = [sinceClick EXCEPT ![a] = 0]
  /\ UNCHANGED mounted
  /\ CopyFrame

\* a reset timer is due: its callback runs setCopied(false); on a component
\* that is no longer mounted the state update has no effect
CopyTimerFires ==
  /\ \E a \in Addresses : \E r \in copyTimers[a] :
       /\ r <= 0
       /\ copyTimers' = [copyTimers EXCEPT ![a] = @ \ {r}]
       /\ copied' = IF mounted THEN [copied EXCEPT ![a] = FALSE] ELSE copied
  /\ UNCHANGED <<mounted, sinceClick>>
  /\ CopyFrame

\* time passes while a timer is pending and none is due
CopyTick ==
  /\ \E a \in Addresses : copyTimers[a] # {}
  /\ \A a \in Addresses : \A r \in copyTimers[a] : r > 0
  /\ copyTimers' = [a \in Addresses |-> {r - CopyGranule : r \in copyTimers[a]}]
  /\ sinceClick' = [a \in Addresses |->
                      IF sinceClick[a] < 0 \/ sinceClick[a] >= COPIED_MS
                        THEN sinceClick[a]
                        ELSE sinceClick[a] + CopyGranule]
  /\ UNCHANGED <<mounted, copied>>
  /\ CopyFrame

\* the view is torn down (the user leaves the page); Home has no effect
\* cleanup, and no handle of a timer is kept
Unmount ==
  /\ mounted
  /\ mounted' = FALSE
  /\ UNCHANGED <<copied, copyTimers, sinceClick>>
  /\ CopyFrame

NextCopy ==
  \/ mounted /\ ProxyGETQuote /\ Aside
  \/ mounted /\ NvidiaResolve /\ Aside
  \/ mounted /\ CryptoResolve /\ Aside
  \/ ClickCopy
  \/ CopyTimerFires
  \/ CopyTick
  \/ Unmount

SpecCopy == Init /\ [][NextCopy]_vars

\* ------------------------------------------------------------------------
\* The three figures of the Ready markup, over a fixed-point range of
\* marketCap strings and crypto totals
\* ------------------------------------------------------------------------

\* marketCap strings "0.00" .. in steps of 0.01
MaxCapHundredths == 12

\* crypto totals 0 .. in steps of TotalStep (in 1e8 USD: 0.005 trillion)
MaxTotalSteps == 20
TotalStep == 50

FigureInputs ==
  {[cap |-> s, total |-> k * TotalStep] :
     s \in UNION {ToFixed(Rat(h, 100), 2) : h \in 0..MaxCapHundredths},
     k \in 0..MaxTotalSteps}

\* ${nvidiaData.marketCap}T, ${cryptoMarketCap.toFixed(2)}T,
\* {difference >= 0 ? '+' : ''}${difference.toFixed(2)}T
Figures(nd, cd) ==
  LET d == Derivation(nd, cd)
  IN  {[shown |-> TRUE, nvidia |-> nd.body.marketCap.s, crypto |-> c,
        difference |-> f, plus |-> NumGeq(d.difference, Num(0))] :
         c \in ToFixed(d.cryptoMarketCap, 2), f \in ToFixed(d.difference, 2)}

InitFigures == InitPage /\ figIn \in FigureInputs

\* Home renders the Ready markup for the input
ShowFigures ==
  /\ ~figOut.shown
  /\ figOut' \in Figures(NvidiaDefined(Body(NumV(Num(100)), NumV(Num(1)),
                                            NumV(Num(1)), Str(figIn.cap),
                                            Str(S_Iso), Undefined)),
                          Aggregate(figIn.total))
  /\ UNCHANGED <<viewVars, pageVars, cacheVars, prevView, copyVars, figIn>>

NextFigures == ShowFigures

SpecFigures == InitFigures /\ [][NextFigures]_vars

\* ------------------------------------------------------------------------
\* Properties of the Comparison View
\* ------------------------------------------------------------------------

NoErrors == nvidiaError = NoError /\ cryptoError = NoError

\* C1: whenever at least one source is in a failed state the view renders
\* Error and not Ready, also when the other source holds fetched data.
C1_ErrorWins ==
  (nvidiaError # NoError \/ cryptoError # NoError)
    => (screen.view = "Error" /\ screen.view # "Ready")

\* the NVIDIA source has failed while the crypto source holds an aggregate
\* and the NVIDIA hook retains the data of an earlier Ready render
C1_Witness ==
  /\ nvidiaError # NoError
  /\ cryptoError = NoError
  /\ cryptoData.defined /\ cryptoData.hasData
  /\ nvidiaData.defined
  /\ everReady
  /\ screen.view = "Error"

\* C2: when the proxy's failure response (status 500, body {error}) is
\* delivered to the view, the NVIDIA source is failed afterwards and the
\* view renders Error with the NVIDIA detail line.
C2_FailureResponseIsError ==
  [][(/\ nvidiaReq = "answered"
      /\ Len(proxyCall.result.responses) = 1
      /\ proxyCall.result.responses[1].status = 500
      /\ nvidiaReq' = "idle")
       => (/\ nvidiaError' # NoError
           /\ screen'.view = "Error"
           /\ screen'.nvidiaLine)]_vars

C4_NoDerivationBeforeReady ==
  /\ (~nvidiaData.defined /\ ~cryptoData.defined /\ NoErrors)
       => (screen.view = "Loading" /\ ~screen.derived)
  /\ screen.derived => screen.view = "Ready"

\* neither source has resolved, the proxy has answered but the answer has
\* not reached the view yet
C4_Witness ==
  /\ ~nvidiaData.defined /\ ~cryptoData.defined /\ NoErrors
  /\ nvidiaReq = "answered"
  /\ screen.view = "Loading"
  /\ ~screen.derived

RatIs(x, n, d) == x.k = "fin" /\ x.n * d = n * x.d

\* s has the form <digits>.<two digits>, optionally signed
IsFixed2(s) ==
  LET b == IF Len(s) > 0 /\ s[1] = "-" THEN 2 ELSE 1
  IN  /\ Len(s) >= b + 3
      /\ s[Len(s) - 2] = "."
      /\ \A i \in b..Len(s) : i # Len(s) - 2 => IsDigit(s[i])

\* the value of such a string in hundredths
Hundredths(s) ==
  LET b == IF s[1] = "-" THEN 2 ELSE 1
      m == DigitsVal(s, b, Len(s) - 2) * 100 + DigitsVal(s, Len(s) - 1, Len(s) + 1)
  IN  IF s[1] = "-" THEN -m ELSE m

\* C6: in Ready, with crypto total T and marketCap string M of value m:
\* cryptoMarketCap = T / 1e12, difference = m - T / 1e12 and
\* percentageDiff = difference / cryptoMarketCap * 100 (non-finite when
\* T = 0); a marketCap that is no number gives NaN for both.
C6_Derivation ==
  (screen.view = "Ready" /\ cryptoData.hasData) =>
    LET T == cryptoData.usd.v.n          \* units of 1e8 USD
        M == nvidiaData.body.marketCap
    IN  /\ screen.derived
        /\ RatIs(screen.cryptoMarketCap, T, TRILLION)
        /\ IF M.t = "string" /\ IsFixed2(M.s) THEN
             LET m == Hundredths(M.s)    \* hundredths of 1e12 USD
                 c == T \div 100         \* the same unit: T is a multiple of 1e10
             IN  /\ T % 100 = 0
                 /\ RatIs(screen.difference, m - c, 100)
                 /\ IF T # 0 THEN RatIs(screen.percentageDiff, 100 * (m - c), c)
                    ELSE screen.percentageDiff.k =
                           (IF m > 0 THEN "Infinity"
                            ELSE IF m < 0 THEN "-Infinity" ELSE "NaN")
           ELSE screen.difference.k = "NaN" /\ screen.percentageDiff.k = "NaN"

\* T = 3.5e12 and M = "4.20" give difference 0.70 and 20.0 percent
C6_Witness ==
  /\ screen.view = "Ready"
  /\ cryptoData.usd = NumV(Num(35000))
  /\ nvidiaData.body.marketCap = Str(<<"4", ".", "2", "0">>)
  /\ screen.cryptoMarketCap = Rat(35, 10)
  /\ screen.difference = Rat(70, 100)
  /\ screen.percentageDiff = Num(20)

\* ------------------------------------------------------------------------
\* Properties of the Quote Proxy, stated of the invocation that has answered
\* the view's request
\* ------------------------------------------------------------------------

Answered == nvidiaReq = "answered"
TheResponse == proxyCall.result.responses[1]
Decoded == proxyCall.up.kind = "json" /\ proxyCall.up.data.t = "object"
QuoteSnapshotKeys == {"price", "change", "changePercent", "marketCap", "timestamp"}

\* C7: for a valid payload with price P the answer is 200, its price field
\* is P, and its marketCap is a fixed-2-decimal string whose value is a
\* multiple of 0.01 nearest to price * 24.4e9 / 1e12 for that price field.
C7_MarketCap ==
  (Answered /\ Decoded /\ ~Truthy(proxyCall.up.data.Information)
     /\ proxyCall.up.data.quote \in ValidQuotes) =>
    LET b == TheResponse.body
        P == ParseFloatStr(proxyCall.up.data.quote.price.s)
    IN  /\ TheResponse.status = 200
        /\ b.price = NumV(P)
        /\ b.marketCap.t = "string"
        /\ IsFixed2(b.marketCap.s)
        \* | m/100 - n*244/(d*10000) | <= 1/200, for price n/d and hundredths m
        /\ LET m == Hundredths(b.marketCap.s)
               n == b.price.v.n
               d == b.price.v.d
               e == 2 * m * d * 100 - 2 * n * SHARES
           IN  Abs(e) <= d * 100

\* price 172.13 gives marketCap "4.20"
C7_Witness ==
  /\ Answered
  /\ Decoded
  /\ proxyCall.up.data.quote.price = Str(S_Price1)
  /\ TheResponse.status = 200
  /\ TheResponse.body.price = NumV(Rat(17213, 100))
  /\ TheResponse.body.marketCap = Str(<<"4", ".", "2", "0">>)

\* C8: an invocation produces exactly one response, 200 with the keys of a
\* QuoteSnapshot or 500 with the key error alone; a failure to fetch or
\* decode the payload ends in the 500, and no exception leaves the handler.
C8_OneResponse ==
  Answered =>
    /\ Len(proxyCall.result.responses) = 1
    /\ proxyCall.result.escaped = "none"
    /\ \/ /\ TheResponse.status = 200
          /\ BodyKeys(TheResponse.body) = QuoteSnapshotKeys
       \/ /\ TheResponse.status = 500
          /\ BodyKeys(TheResponse.body) = {"error"}
          /\ TheResponse.body.error.t = "string"
    /\ ~Decoded => TheResponse.status = 500
    /\ proxyCall.result.logged # "none" => TheResponse.status = 500

\* the upstream body was no JSON and the handler answered 500
C8_Witness ==
  /\ Answered
  /\ proxyCall.up.kind = "nonjson"
  /\ Len(proxyCall.result.responses) = 1
  /\ TheResponse.status = 500
  /\ proxyCall.result.logged = "SyntaxError: Unexpected token"

\* C9, as claimed: a payload that contains an Information field, of
\* whatever value, is answered with 500 and an error field.
C9_AnyInformation ==
  (Answered /\ Decoded /\ proxyCall.up.data.Information.t # "undefined")
    => (TheResponse.status = 500 /\ TheResponse.body.error.t = "string")

\* C9, amended: a payload whose Information field is truthy (a non-empty
\* string) is answered with 500 and an error field, whatever else the
\* payload contains.
C9_TruthyInformation ==
  (Answered /\ Decoded /\ Truthy(proxyCall.up.data.Information))
    => (TheResponse.status = 500 /\ TheResponse.body.error.t = "string")

\* a payload with Information and a well-formed Global Quote is answered 500
C9_Witness ==
  /\ Answered
  /\ Decoded
  /\ proxyCall.up.data.Information = Str(S_Limit)
  /\ proxyCall.up.data.quote \in ValidQuotes
  /\ TheResponse.status = 500
  /\ proxyCall.result.logged = "API rate limit or invalid key"

\* C10: a payload without the Global Quote object is answered with 500,
\* never with 200.
C10_NoQuote ==
  (Answered /\ Decoded /\ proxyCall.up.data.quote.t = "undefined")
    => (TheResponse.status = 500 /\ TheResponse.status # 200)

\* a payload with neither Information nor Global Quote is answered 500
C10_Witness ==
  /\ Answered
  /\ Decoded
  /\ proxyCall.up.data.Information.t = "undefined"
  /\ proxyCall.up.data.quote.t = "undefined"
  /\ TheResponse.status = 500
  /\ proxyCall.result.logged = "Invalid API response"

\* C11: a Global Quote whose price, change or change percent is missing
\* or no number is answered with 500; every 200 carries a numeric price,
\* change and changePercent and a marketCap that is a 2-decimal string.
C11_ParseFailureIs500 ==
  (Answered /\ TheResponse.status = 200) =>
    /\ TheResponse.body.price.t = "number"
    /\ TheResponse.body.change.t = "number"
    /\ TheResponse.body.changePercent.t = "number"
    /\ TheResponse.body.marketCap.t = "string"
    /\ IsFixed2(TheResponse.body.marketCap.s)

GenericFailure == Response(500, ErrorBody, NoCacheControl)

\* C12: the failure response is the same for every cause: every response
\* that is no 200 is the one generic 500 response, so any two of them are
\* identical; the reason is in the log and not in the body.
C12_FailureIndependentOfCause ==
  (Answered /\ proxyCall.result.logged # "none") =>
    /\ Len(proxyCall.result.responses) = 1
    /\ TheResponse = GenericFailure
    /\ TheResponse.body.error # Str(<<proxyCall.result.logged>>)
    /\ proxyCall.result.logged \in
         {"TypeError: fetch failed", "SyntaxError: Unexpected token",
          "TypeError: Cannot read properties of null",
          "API rate limit or invalid key", "Invalid API response",
          "TypeError: Cannot read properties of undefined",
          "TypeError: replace is not a function"}

\* a network failure is answered with the generic response, which is also
\* the answer to throttling (C9_Witness) and to a missing quote (C10_Witness)
C12_Witness ==
  /\ Answered
  /\ proxyCall.up.kind = "reject"
  /\ proxyCall.result.logged = "TypeError: fetch failed"
  /\ TheResponse = GenericFailure

\* C13: a success body has exactly the fields price, change, changePercent,
\* marketCap and timestamp, the first three numbers and the last two
\* strings; a failure has status 500 and exactly the field error.
C13_BodyShape ==
  Answered =>
    \/ /\ TheResponse.status = 200
       /\ BodyKeys(TheResponse.body) = QuoteSnapshotKeys
       /\ TheResponse.body.price.t = "number"
       /\ TheResponse.body.change.t = "number"
       /\ TheResponse.body.changePercent.t = "number"
       /\ TheResponse.body.marketCap.t = "string"
       /\ TheResponse.body.timestamp.t = "string"
    \/ /\ TheResponse.status = 500
       /\ BodyKeys(TheResponse.body) = {"error"}
       /\ TheResponse.body.error.t = "string"

\* C14: a change percent of the form <signed decimal>% is returned as that
\* decimal: "3.25%" as 3.25, "-1.10%" as -1.10.
C14_ChangePercent ==
  (Answered /\ TheResponse.status = 200) =>
    LET s == proxyCall.up.data.quote.pct.s
        body == SubSeq(s, 1, Len(s) - 1)
    IN  (Len(s) > 1 /\ s[Len(s)] = "%" /\ IsFixed2(body)) =>
          /\ TheResponse.body.changePercent.t = "number"
          /\ RatIs(TheResponse.body.changePercent.v, Hundredths(body), 100)
          /\ s = S_Pct1 => TheResponse.body.changePercent = NumV(Rat(325, 100))
          /\ s = S_Pct2 => TheResponse.body.changePercent = NumV(Rat(-110, 100))

\* "-1.10%" has been answered with -1.10
C14_Witness ==
  /\ Answered
  /\ TheResponse.status = 200
  /\ proxyCall.up.data.quote.pct = Str(S_Pct2)
  /\ TheResponse.body.changePercent = NumV(Rat(-11, 10))

\* ------------------------------------------------------------------------
\* Properties of the Comparison View, continued
\* ------------------------------------------------------------------------

\* C17: the screen and its figures are a function of the latest (data,
\* error) of the two hooks, and a step that changes the value of one hook
\* leaves the other hook's value alone; so the order in which the two
\* results arrived has no influence on what is rendered.
C17_OrderIndependent ==
  [][ /\ screen' = Home(nvidiaData', nvidiaError', cryptoData', cryptoError')
      /\ (<<nvidiaData', nvidiaError'>> # <<nvidiaData, nvidiaError>>)
           => UNCHANGED <<cryptoData, cryptoError, cryptoReq>>
      /\ (<<cryptoData', cryptoError'>> # <<cryptoData, cryptoError>>)
           => UNCHANGED <<nvidiaData, nvidiaError, nvidiaReq, proxyCall>> ]_vars

\* both results have arrived (in either order) and both requests are done:
\* Ready with the figures of T = 1.75e12 and M = "4.20"
C17_Witness ==
  /\ nvidiaReq = "idle"
  /\ cryptoReq = "idle"
  /\ NoErrors
  /\ screen.view = "Ready"
  /\ cryptoData.usd = NumV(Num(17500))
  /\ nvidiaData.body.marketCap = Str(<<"4", ".", "2", "0">>)
  /\ screen.difference = Rat(245, 100)
  /\ screen.percentageDiff = Num(140)

\* C18: with both sources resolved and a crypto total of 0 the view takes
\* the Ready return, not the Error return; the derivation runs without
\* raising, percentageDiff is Infinity, -Infinity or NaN, and the markup of
\* a quote snapshot raises nothing either.
C18_ZeroCryptoTotal ==
  (/\ NoErrors
   /\ nvidiaData.defined
   /\ cryptoData.defined
   /\ cryptoData.hasData
   /\ cryptoData.usd = NumV(Num(0))) =>
    /\ screen.view = "Ready"
    /\ screen.derived
    /\ screen.percentageDiff.k \in {"Infinity", "-Infinity", "NaN"}
    /\ (nvidiaData.body.price.t = "number") => ~screen.threw

\* a total of 0 under a marketCap of "4.20": Ready, and Infinity percent
C18_Witness ==
  /\ NoErrors
  /\ cryptoData.hasData
  /\ cryptoData.usd = NumV(Num(0))
  /\ nvidiaData.body.marketCap = Str(<<"4", ".", "2", "0">>)
  /\ screen.view = "Ready"
  /\ ~screen.threw
  /\ screen.percentageDiff = PosInf

\* ------------------------------------------------------------------------
\* Cache directives
\* ------------------------------------------------------------------------

\* C20: the s-maxage of a successful response, as it leaves the server with
\* the site-wide header rule applied, equals the revalidate seconds of the
\* upstream fetch (300/300 and 3600/3600).
C20_SMaxAgeIsRevalidate ==
  (Answered /\ TheResponse.status = 200) =>
    /\ TheResponse.cc.smaxage = Revalidate(variant)
    /\ proxyCall.sent.smaxage = Revalidate(variant)
    /\ Revalidate(variant) = (IF variant = "5min" THEN 300 ELSE 3600)

\* ------------------------------------------------------------------------
\* Polling
\* ------------------------------------------------------------------------

\* C15: a request of a source is issued by nothing but that source's poll
\* timer (no retry after a failure), and the step that issues it, like
\* every tick and result of one source, leaves the request of the other
\* source as it is.
C15_OnlyOwnPollTimer ==
  [][ /\ (nvidiaReq = "idle" /\ nvidiaReq' = "sent")
           => (nvidiaCause' = "poll" /\ UNCHANGED <<cryptoReq, cryptoCause>>)
      /\ (cryptoReq = "idle" /\ cryptoReq' = "sent")
           => (cryptoCause' = "poll" /\ UNCHANGED <<nvidiaReq, nvidiaCause>>)
      /\ (nvidiaReq # nvidiaReq' /\ nvidiaCause' \in {"none", "poll"})
           => UNCHANGED <<cryptoReq, cryptoCause>>
      /\ (cryptoReq # cryptoReq' /\ cryptoCause' \in {"none", "poll"})
           => UNCHANGED <<nvidiaReq, nvidiaCause>> ]_vars

\* C15 (amended): a request of a source is issued by its own poll timer, by
\* its own retry timer after a failed fetch of that source, or by the
\* focus/reconnect revalidation; a tick, retry, result or failure of one
\* source leaves the request and the hook of the other source as they are.
C15_OwnTimersOnly ==
  [][ /\ (nvidiaReq = "idle" /\ nvidiaReq' = "sent")
           => nvidiaCause' \in {"poll", "retry", "focus"}
      /\ (cryptoReq = "idle" /\ cryptoReq' = "sent")
           => cryptoCause' \in {"poll", "retry", "focus"}
      /\ (nvidiaCause' = "retry" /\ nvidiaCause # "retry")
           => nvidiaError # NoError
      /\ (cryptoCause' = "retry" /\ cryptoCause # "retry")
           => cryptoError # NoError
      /\ (nvidiaReq # nvidiaReq' /\ nvidiaCause' \in {"none", "poll", "retry"})
           => UNCHANGED <<cryptoReq, cryptoCause, cryptoData, cryptoError>>
      /\ (cryptoReq # cryptoReq' /\ cryptoCause' \in {"none", "poll", "retry"})
           => UNCHANGED <<nvidiaReq, nvidiaCause, nvidiaData, nvidiaError>> ]_vars

\* the NVIDIA fetch has failed and its retry timer has issued the request
\* again, while the first request of the crypto hook is still under way
C15_Witness ==
  /\ nvidiaReq = "sent"
  /\ nvidiaCause = "retry"
  /\ nvidiaError # NoError
  /\ cryptoReq = "sent"
  /\ cryptoCause = "mount"

\* ------------------------------------------------------------------------
\* The privacy notice
\* ------------------------------------------------------------------------

\* C19: a step that closes the notice, by whichever button, leaves the item
\* set in localStorage; once the item is set it stays set, and the notice
\* is not up after any later step, page loads included.
C19_ClosedIsRemembered ==
  [][ /\ (showPrivacyPopup /\ ~showPrivacyPopup') => hasSeenPrivacyPopup'
      /\ hasSeenPrivacyPopup => (hasSeenPrivacyPopup' /\ ~showPrivacyPopup')
    ]_vars

\* ------------------------------------------------------------------------
\* Staleness
\* ------------------------------------------------------------------------

\* C16: the quote the view holds is never older, counted from the moment
\* the upstream API produced it, than one polling interval plus one
\* upstream cache interval.
C16_AgeBound ==
  shown.has => clock - shown.at <= PollSeconds + Revalidate(variant)

\* ------------------------------------------------------------------------
\* Further properties of the Comparison View and the Quote Proxy
\* ------------------------------------------------------------------------

\* C21: in the Error state the NVIDIA line is shown exactly when the NVIDIA
\* hook has an error, the crypto line exactly when the crypto hook has one,
\* and at least one of the two lines is shown.
C21_ErrorLines ==
  (screen.view = "Error") =>
    /\ screen.nvidiaLine <=> (nvidiaError # NoError)
    /\ screen.cryptoLine <=> (cryptoError # NoError)
    /\ screen.nvidiaLine \/ screen.cryptoLine

\* only the crypto fetch has failed: Error with the crypto line alone
C21_Witness ==
  /\ screen.view = "Error"
  /\ nvidiaError = NoError
  /\ cryptoError # NoError
  /\ ~screen.nvidiaLine
  /\ screen.cryptoLine

\* what the caller sees of a result of GET: status and body of the responses
Visible(r) == [i \in 1..Len(r.responses) |->
                 [status |-> r.responses[i].status, body |-> r.responses[i].body]]

\* C22: for the upstream outcome a request has met, the two variants have
\* the same possible results as the caller sees them (status and body; the
\* timestamp is the clock's), and the response given is one of them.
C22_VariantsAgree ==
  Answered =>
    /\ {Visible(r) : r \in GET("5min", proxyCall.up)}
         = {Visible(r) : r \in GET("1hour", proxyCall.up)}
    /\ \A v \in Variants :
         Visible(proxyCall.result) \in {Visible(r) : r \in GET(v, proxyCall.up)}

\* the 5-minute variant has answered a quote without previous close with
\* 200, as the 1-hour variant does
C22_Witness ==
  /\ Answered
  /\ variant = "5min"
  /\ Decoded
  /\ proxyCall.up.data.quote.t = "object"
  /\ proxyCall.up.data.quote.prev.t = "undefined"
  /\ proxyCall.up.data.quote.price.t = "string"
  /\ TheResponse.status = 200
  /\ Visible(proxyCall.result) \in {Visible(r) : r \in GET("1hour", proxyCall.up)}

\* C23: a step that delivers a result or a failure of one source leaves the
\* data and the error of the other source unchanged, and the data of a hook
\* changes in no step but one that delivers a result of its own source.
C23_NoSharedState ==
  [][ /\ (nvidiaReq # "idle" /\ nvidiaReq' = "idle")
           => UNCHANGED <<cryptoData, cryptoError>>
      /\ (cryptoReq # "idle" /\ cryptoReq' = "idle")
           => UNCHANGED <<nvidiaData, nvidiaError>>
      /\ (nvidiaData' # nvidiaData \/ nvidiaError' # nvidiaError)
           => (nvidiaReq # "idle" /\ nvidiaReq' = "idle")
      /\ (cryptoData' # cryptoData \/ cryptoError' # cryptoError)
           => (cryptoReq # "idle" /\ cryptoReq' = "idle") ]_vars

\* the crypto fetch has failed after both sources had delivered: the NVIDIA
\* hook still holds its snapshot and no error
C23_Witness ==
  /\ cryptoError # NoError
  /\ cryptoData.defined
  /\ nvidiaError = NoError
  /\ nvidiaData.defined
  /\ nvidiaData.body.marketCap = Str(<<"4", ".", "2", "0">>)
  /\ cryptoReq = "idle"

\* C24: whenever Home takes the Ready return, the fields the markup reads
\* are defined and evaluating it raises nothing.
C24_ReadyNeverThrows ==
  (screen.view = "Ready") =>
    /\ ~screen.threw
    /\ nvidiaData.body.marketCap.t = "string"
    /\ nvidiaData.body.price.t = "number"
    /\ nvidiaData.body.changePercent.t = "number"
    /\ cryptoData.hasData
    /\ cryptoData.usd.t = "number"
    /\ cryptoData.btc.t = "number"
    /\ cryptoData.active.t = "number"

\* C25: when the view shows Error and a step leaves both hooks without
\* error and with data, the render of that step takes the Ready return and
\* its figures are those of the data the hooks hold after the step.
C25_ErrorNotAbsorbing ==
  [][ (/\ screen.view = "Error"
       /\ nvidiaError' = NoError
       /\ cryptoError' = NoError
       /\ nvidiaData'.defined
       /\ cryptoData'.defined)
      => (/\ screen'.view = "Ready"
          /\ cryptoData'.hasData =>
               LET d == Derivation(nvidiaData', cryptoData')
               IN  /\ screen'.cryptoMarketCap = d.cryptoMarketCap
                   /\ screen'.difference = d.difference
                   /\ screen'.percentageDiff = d.percentageDiff) ]_vars

\* the render before the last showed Error, the last one shows Ready with
\* the figures of the data now held
C25_Witness ==
  /\ prevView = "Error"
  /\ screen.view = "Ready"
  /\ ~screen.threw
  /\ NoErrors
  /\ cryptoData.hasData
  /\ screen.difference = Derivation(nvidiaData, cryptoData).difference

\* ------------------------------------------------------------------------
\* Analytics
\* ------------------------------------------------------------------------

\* C26: a step that changes the (data, error) of a source dispatches exactly
\* one data_load event for it, with success = true if the fetch just
\* delivered succeeded and success = false if it failed.
C26_OneDataLoadEvent ==
  [][ /\ (<<nvidiaData', nvidiaError'>> # <<nvidiaData, nvidiaError>>)
           => DataLoadEvents(nvidiaData, nvidiaError, nvidiaData', nvidiaError')
                = <<nvidiaError' = NoError>>
      /\ (<<cryptoData', cryptoError'>> # <<cryptoData, cryptoError>>)
           => DataLoadEvents(cryptoData, cryptoError, cryptoData', cryptoError')
                = <<cryptoError' = NoError>> ]_vars

\* ------------------------------------------------------------------------
\* The 'Copied!' indicator and the displayed figures
\* ------------------------------------------------------------------------

\* C27: while the view is mounted the indicator of an address is up until
\* 2000 ms have passed since the last click on it, and a reset timer fires
\* only while the view is mounted.
C27_CopiedFor2000 ==
  [][ /\ \A a \in Addresses :
           (mounted' /\ sinceClick'[a] >= 0 /\ sinceClick'[a] < COPIED_MS)
             => copied'[a]
      /\ (\E a \in Addresses :
            Cardinality(copyTimers'[a]) < Cardinality(copyTimers[a]))
           => mounted ]_vars

\* C28: the difference shown equals the NVIDIA cap shown minus the crypto
\* cap shown, all read as 2-decimal numbers, and the '+' is shown exactly
\* when the difference shown carries no minus sign.
C28_FiguresConsistent ==
  figOut.shown =>
    /\ IsFixed2(figOut.nvidia) /\ IsFixed2(figOut.crypto)
    /\ IsFixed2(figOut.difference)
    /\ Hundredths(figOut.difference)
         = Hundredths(figOut.nvidia) - Hundredths(figOut.crypto)
    /\ figOut.plus <=> (figOut.difference[1] # "-")

====
